---- MODULE Spec2Model ----
(***************************************************************************)
(* Model of remove_cleanup_calls.py: a directory walk that applies two     *)
(* regular-expression deletions to every candidate file.                   *)
(*                                                                         *)
(* A text is a sequence of characters, each a string of length one.       *)
(* The characters of the literals of the two patterns, ")", ";", " ",      *)
(* "\n" and "\r" stand for themselves; "\t" stands for any other character *)
(* that \s matches (tab, vertical tab, form feed, no-break space, ...);    *)
(* "q" stands for any character that \s does not match and that occurs in  *)
(* no literal of the patterns.  The patterns tell no two characters of a   *)
(* class apart.  "?" is the leading bytes of a character that a failed     *)
(* write has cut; it occurs in no text that is read.                       *)
(***************************************************************************)
EXTENDS Naturals, Sequences, FiniteSets

VARIABLES
    dir,        \* what the file system answers about test_dir
    link,       \* name in test_dir -> the file the name leads to
    disk,       \* file -> stored text of the file
    before,     \* disk as it was when the current run started
    globbed,    \* the paths test_dir.glob("*.rs") yields, in its order
    idx,        \* index in globbed of the path the loop is at
    updated,    \* the list `updated` of main
    out,        \* console lines printed by the current run
    readLog,    \* the calls of read_text in the current run, in order
    writeLog,   \* the calls of write_text in the current run, in order
    pc,         \* "init" | "loop" | "done" | "crashed"
    run         \* number of the current run

vars == <<dir, link, disk, before, globbed, idx, updated, out, readLog, writeLog, pc, run>>

----------------------------------------------------------------------------
(* Bounds *)

\* Longest run of padding characters put after a chain in the generated texts.
MaxPad == 2
\* Number of consecutive runs of the script.
MaxRuns == 2

----------------------------------------------------------------------------
(* Sequences *)

SeqsUpTo(S, n) == UNION {[1..k -> S] : k \in 0..n}

Max(S) == CHOOSE m \in S : \A k \in S : k <= m

----------------------------------------------------------------------------
(* The literals of the patterns *)

TestDb  == <<"t", "e", "s", "t", "_", "d", "b">>                   \* test_db
Cleanup == <<".", "c", "l", "e", "a", "n", "u", "p", "(", ")">>    \* \.cleanup\(\)
Await   == <<".", "a", "w", "a", "i", "t">>                        \* \.await
Expect  == <<".", "e", "x", "p", "e", "c", "t", "(">>              \* \.expect\(

----------------------------------------------------------------------------
(* Regular expressions.  A position is the index of the next character to  *)
(* consume (1 .. Len(s)+1).  Each combinator maps the set P of positions   *)
(* a prefix of the pattern can end at to the set of positions the prefix   *)
(* followed by one more element can end at.                                *)

\* \s
IsSpace(t) == t \in {" ", "\n", "\r", "\t"}

\* a literal
Lit(s, P, lit) ==
    {p + Len(lit) : p \in {q \in P : /\ q + Len(lit) - 1 <= Len(s)
                                     /\ SubSeq(s, q, q + Len(lit) - 1) = lit}}

\* \s*
WsStar(s, P) ==
    IF P = {} THEN {} ELSE
    {j \in 1..(Len(s) + 1) : \E p \in P : p <= j /\ \A k \in p..(j - 1) : IsSpace(s[k])}

\* [^)]+
NotParenPlus(s, P) ==
    IF P = {} THEN {} ELSE
    {j \in 1..(Len(s) + 1) : \E p \in P : p < j /\ \A k \in p..(j - 1) : s[k] # ")"}

\* x?
Opt(s, P, lit) == P \cup Lit(s, P, lit)

\* the separator as \s*, a newline no longer required
NlSep_Optional(s, P) == WsStar(s, P)

\* \s*\n\s*
NlSep(s, P) == WsStar(s, Lit(s, WsStar(s, P), <<"\n">>))

\* \.expect\([^)]+\)
ExpectCall(s, P) == Lit(s, NotParenPlus(s, Lit(s, P, Expect)), <<")">>)

\* r'test_db\s*\n\s*\.cleanup\(\)\s*\n\s*\.await\s*\n\s*\.expect\([^)]+\);?\s*\n'
\* : the positions a match starting at i can end at.
pattern(s, i) ==
    LET p1 == Lit(s, {i}, TestDb)
        p2 == Lit(s, NlSep(s, p1), Cleanup)
        p3 == Lit(s, NlSep(s, p2), Await)
        p4 == ExpectCall(s, NlSep(s, p3))
        p5 == Opt(s, p4, <<";">>)
    IN  Lit(s, WsStar(s, p5), <<"\n">>)

\* pattern2 ending in \n instead of \s*\n
pattern2_NoTrailingWs(s, i) ==
    LET p1 == Lit(s, {i}, TestDb \o Cleanup \o Await)
        p2 == ExpectCall(s, p1)
        p3 == Lit(s, p2, <<";">>)
    IN  Lit(s, p3, <<"\n">>)

\* pattern2 with the semicolon optional, as in pattern
pattern2_OptionalSemicolon(s, i) ==
    LET p1 == Lit(s, {i}, TestDb \o Cleanup \o Await)
        p2 == ExpectCall(s, p1)
        p3 == Opt(s, p2, <<";">>)
    IN  Lit(s, WsStar(s, p3), <<"\n">>)

\* r'test_db\.cleanup\(\)\.await\.expect\([^)]+\);\s*\n'
pattern2(s, i) ==
    LET p1 == Lit(s, {i}, TestDb \o Cleanup \o Await)
        p2 == ExpectCall(s, p1)
        p3 == Lit(s, p2, <<";">>)
    IN  Lit(s, WsStar(s, p3), <<"\n">>)

Ends(rule, s, i) == IF rule = 1 THEN pattern(s, i) ELSE pattern2(s, i)

\* The position after the match the engine reports at i, 0 when there is
\* none.  Every quantifier is greedy and the end positions of a match at i
\* differ only in how much the final \s* takes, so the engine's match is
\* the longest one.
MatchEnd(rule, s, i) ==
    LET E == Ends(rule, s, i) IN IF E = {} THEN 0 ELSE Max(E)

\* the start of the leftmost match at or after position i, 0 when there
\* is none
NextMatch(rule, s, i) ==
    LET K == {k \in i..Len(s) : MatchEnd(rule, s, k) # 0}
    IN  IF K = {} THEN 0 ELSE CHOOSE k \in K : \A m \in K : k <= m

\* re.sub(pattern, '', s): one left-to-right scan; the text before the
\* next match is kept, the match is dropped, the scan resumes after the
\* match and never looks at the text a deletion has joined.
RECURSIVE SubFrom(_, _, _)
SubFrom(rule, s, i) ==
    LET k == NextMatch(rule, s, i)
    IN  IF k = 0 THEN SubSeq(s, i, Len(s))
        ELSE SubSeq(s, i, k - 1) \o SubFrom(rule, s, MatchEnd(rule, s, k))

re_sub(rule, s) == SubFrom(rule, s, 1)

\* content after the two substitutions of remove_cleanup_calls
Rewrite(content) == re_sub(2, re_sub(1, content))

----------------------------------------------------------------------------
(* Text files *)

\* the position of the first c in s, 0 when there is none
First(s, c) ==
    LET K == {k \in 1..Len(s) : s[k] = c}
    IN  IF K = {} THEN 0 ELSE CHOOSE k \in K : \A m \in K : k <= m

\* Path.read_text(): universal newlines, "\r\n" and a lone "\r" are read
\* as "\n".
RECURSIVE read_text(_)
read_text(raw) ==
    LET k == First(raw, "\r")
    IN  IF k = 0 THEN raw
        ELSE SubSeq(raw, 1, k - 1) \o <<"\n">> \o
             read_text(SubSeq(raw, IF k < Len(raw) /\ raw[k + 1] = "\n" THEN k + 2 ELSE k + 1,
                              Len(raw)))

\* os.linesep of the platform the script runs on (POSIX)
linesep == <<"\n">>

\* Path.write_text(): every "\n" is written as os.linesep.
RECURSIVE write_text(_)
write_text(text) ==
    LET k == First(text, "\n")
    IN  IF k = 0 THEN text
        ELSE SubSeq(text, 1, k - 1) \o linesep \o write_text(SubSeq(text, k + 1, Len(text)))

----------------------------------------------------------------------------
(* File names.  A name is a sequence of parts whose concatenation is the   *)
(* name; ".rs" is a part of its own, and no other part ends in ".rs".      *)

a_rs       == <<"a", ".rs">>
helpers_rs == <<"helpers", ".rs">>
mod_rs     == <<"mod", ".rs">>
my_mod_rs  == <<"my_", "mod", ".rs">>
a_rs_bak   == <<"a", ".rs", ".bak">>

\* the name matches the glob pattern "*.rs"
GlobRs(name) == Len(name) >= 1 /\ name[Len(name)] = ".rs"

\* only helpers.rs is skipped
Reserved_OnlyHelpers(name) == name = helpers_rs

\* filepath.name == "helpers.rs" or filepath.name == "mod.rs"
Reserved(name) == name = helpers_rs \/ name = mod_rs

----------------------------------------------------------------------------
(* Console lines *)

Line(kind, name, count) == [kind |-> kind, name |-> name, count |-> count]

ErrorLine     == Line("error", <<>>, 0)        \* Error: <test_dir> does not exist
CheckLine(n)  == Line("check", n, 0)           \* <checkmark> <name>
DashLine(n)   == Line("dash", n, 0)            \* - <name>
BlankLine     == Line("blank", <<>>, 0)        \* the "\n" that opens the summary
SummaryLine(k) == Line("summary", <<>>, k)     \* Updated <k> files

----------------------------------------------------------------------------
(* The generated texts *)

Chain(s1, s2, s3, args, semi) ==
    TestDb \o s1 \o Cleanup \o s2 \o Await \o s3
        \o Expect \o args \o <<")">> \o semi

Seps == {<<>>, <<" ">>, <<"\n">>, <<"\n", "\t">>}

Args == {<<"q">>, <<>>, <<"q", ")">>, <<"q", ")", "q">>,
         <<"q", ")", ";", "\n", "q">>, <<"q", ")", "\n", "q">>}

Semis == {<<>>, <<";">>}

Pres == {<<>>, <<" ">>, <<"\t">>, <<"q">>, <<"q", "\r", "\n">>, TestDb \o <<"\n", " ">>}

PadTok == {" ", "\n", "\r", "\t", "q"}

Posts == SeqsUpTo(PadTok, MaxPad)

Uniform == {<<s, s, s>> : s \in Seps}

Form(pre, t, args, semi, post) == pre \o Chain(t[1], t[2], t[3], args, semi) \o post

\* one chain, its three separators alike, with text before and after it
Padded ==
    {Form(pre, t, <<"q">>, semi, post) :
        pre \in Pres, t \in Uniform, semi \in Semis, post \in Posts}

\* one chain with any three separators
Spread ==
    {Form(<<>>, t, <<"q">>, semi, post) :
        t \in Seps \X Seps \X Seps, semi \in Semis, post \in Posts}

\* one chain with any argument of .expect(
Argued ==
    {Form(<<>>, t, args, semi, post) :
        t \in Uniform, args \in Args, semi \in Semis, post \in Posts}

SingleLine == Chain(<<>>, <<>>, <<>>, <<"q">>, <<";">>) \o <<"\n">>
MultiLine  == Chain(<<"\n">>, <<"\n">>, <<"\n">>, <<"q">>, <<";">>) \o <<"\n">>

\* one chain put inside another at any position
Insert(a, k, b) == SubSeq(a, 1, k) \o b \o SubSeq(a, k + 1, Len(a))

Nested ==
    UNION {{Insert(a, k, b) : k \in 0..Len(a)} :
              a \in {SingleLine, MultiLine}, b \in {SingleLine, MultiLine}}

Texts == Padded \cup Spread \cup Argued \cup Nested

----------------------------------------------------------------------------
(* The program.  The standard output is taken to accept every line.       *)

Orders(S) ==
    {o \in [1..Cardinality(S) -> S] : \A i, j \in 1..Cardinality(S) : o[i] = o[j] => i = j}

\* what a write of s that stops at any byte leaves in the file: the
\* characters written so far, and after them the leading bytes of the
\* next one when it may take more than one byte
Prefixes(s) ==
    UNION {{SubSeq(s, 1, k)} \cup
           (IF k < Len(s) /\ s[k + 1] \in {"q", "\t"}
            THEN {Append(SubSeq(s, 1, k), "?")} ELSE {}) :
              k \in 0..Len(s)}

\* the names of the directory
Names == DOMAIN link

\* the stored text of the file that name n leads to
Stored(n) == disk[link[n]]

\* one call of read_text / write_text, as the logs record it
ReadCall(n, text, ok) == [name |-> n, text |-> text, ok |-> ok]
WriteCall(n, text, ok, at) == [name |-> n, text |-> text, ok |-> ok, at |-> at]

StartRun(d) ==
    /\ before = d
    /\ globbed = <<>>
    /\ idx = 1
    /\ updated = <<>>
    /\ out = <<>>
    /\ readLog = <<>>
    /\ writeLog = <<>>
    /\ pc = "init"

\* the loop has a path to look at
InLoop == pc = "loop" /\ idx <= Len(globbed)

\* main: test_dir.exists() raises PermissionError, which nothing catches
ExistsFails ==
    /\ pc = "init"
    /\ ~dir.searchable
    /\ pc' = "crashed"
    /\ UNCHANGED <<dir, link, disk, before, globbed, idx, updated, out, readLog, writeLog, run>>

\* main: test_dir exists, glob("*.rs") lists it
Start ==
    /\ pc = "init"
    /\ dir.searchable /\ dir.exists /\ dir.listable
    /\ globbed' \in Orders({n \in Names : GlobRs(n)})
    /\ pc' = "loop"
    /\ UNCHANGED <<dir, link, disk, before, idx, updated, out, readLog, writeLog, run>>

\* main: test_dir exists but cannot be listed (no read permission, or not
\* a directory): glob("*.rs") yields nothing and raises nothing
StartUnlistable ==
    /\ pc = "init"
    /\ dir.searchable /\ dir.exists /\ ~dir.listable
    /\ globbed' = <<>>
    /\ pc' = "loop"
    /\ UNCHANGED <<dir, link, disk, before, idx, updated, out, readLog, writeLog, run>>

\* the error is printed but main does not return
StartMissing_NoReturn ==
    /\ pc = "init"
    /\ dir.searchable /\ ~dir.exists
    /\ out' = Append(out, ErrorLine)
    /\ globbed' = <<>>
    /\ pc' = "loop"
    /\ UNCHANGED <<dir, link, disk, before, idx, updated, readLog, writeLog, run>>

\* main: test_dir.exists() is False
StartMissing ==
    /\ pc = "init"
    /\ dir.searchable /\ ~dir.exists
    /\ out' = Append(out, ErrorLine)
    /\ pc' = "done"
    /\ UNCHANGED <<dir, link, disk, before, globbed, idx, updated, readLog, writeLog, run>>

\* main: the loop body's `continue`
SkipReserved ==
    /\ InLoop
    /\ Reserved(globbed[idx])
    /\ idx' = idx + 1
    /\ UNCHANGED <<dir, link, disk, before, globbed, updated, out, readLog, writeLog, pc, run>>

\* the file is written back whether or not the text changed
ProcessFile_AlwaysWrites ==
    /\ InLoop
    /\ ~Reserved(globbed[idx])
    /\ LET f        == globbed[idx]
           original == read_text(Stored(f))
           content  == Rewrite(original)
       IN  /\ readLog' = Append(readLog, ReadCall(f, original, TRUE))
           /\ disk' = [disk EXCEPT ![link[f]] = write_text(content)]
           /\ writeLog' = Append(writeLog, WriteCall(f, write_text(content), TRUE, Len(readLog) + 1))
           /\ IF content # original
              THEN /\ updated' = Append(updated, f)
                   /\ out' = Append(out, CheckLine(f))
              ELSE /\ out' = Append(out, DashLine(f))
                   /\ UNCHANGED updated
    /\ idx' = idx + 1
    /\ UNCHANGED <<dir, link, before, globbed, pc, run>>

\* the rewritten text is compared with the stored text, not the text read
ProcessFile_ComparesStored ==
    /\ InLoop
    /\ ~Reserved(globbed[idx])
    /\ LET f        == globbed[idx]
           original == Stored(f)
           content  == Rewrite(read_text(Stored(f)))
       IN  /\ readLog' = Append(readLog, ReadCall(f, read_text(Stored(f)), TRUE))
           /\ IF content # original
              THEN /\ disk' = [disk EXCEPT ![link[f]] = write_text(content)]
                   /\ writeLog' = Append(writeLog, WriteCall(f, write_text(content), TRUE, Len(readLog) + 1))
                   /\ updated' = Append(updated, f)
                   /\ out' = Append(out, CheckLine(f))
              ELSE /\ out' = Append(out, DashLine(f))
                   /\ UNCHANGED <<disk, writeLog, updated>>
    /\ idx' = idx + 1
    /\ UNCHANGED <<dir, link, before, globbed, pc, run>>

\* main: one iteration of the loop, remove_cleanup_calls(filepath) included.
\* read_text and write_text open the file the name leads to, so every name
\* of that file sees what is written.
ProcessFile ==
    /\ InLoop
    /\ ~Reserved(globbed[idx])
    /\ LET f        == globbed[idx]
           original == read_text(Stored(f))
           content  == Rewrite(original)
       IN  /\ readLog' = Append(readLog, ReadCall(f, original, TRUE))
           /\ IF content # original
              THEN /\ disk' = [disk EXCEPT ![link[f]] = write_text(content)]
                   /\ writeLog' = Append(writeLog, WriteCall(f, write_text(content), TRUE, Len(readLog) + 1))
                   /\ updated' = Append(updated, f)
                   /\ out' = Append(out, CheckLine(f))
              ELSE /\ out' = Append(out, DashLine(f))
                   /\ UNCHANGED <<disk, writeLog, updated>>
    /\ idx' = idx + 1
    /\ UNCHANGED <<dir, link, before, globbed, pc, run>>

\* the failure of read_text is caught and the loop goes on
ReadFails_Caught ==
    /\ InLoop
    /\ ~Reserved(globbed[idx])
    /\ readLog' = Append(readLog, ReadCall(globbed[idx], <<>>, FALSE))
    /\ idx' = idx + 1
    /\ UNCHANGED <<dir, link, disk, before, globbed, updated, out, writeLog, pc, run>>

\* remove_cleanup_calls: filepath.read_text() raises
ReadFails ==
    /\ InLoop
    /\ ~Reserved(globbed[idx])
    /\ readLog' = Append(readLog, ReadCall(globbed[idx], <<>>, FALSE))
    /\ pc' = "crashed"
    /\ UNCHANGED <<dir, link, disk, before, globbed, idx, updated, out, writeLog, run>>

\* remove_cleanup_calls: filepath.write_text(content) raises, either before
\* the file is opened or after it was truncated and partly written
WriteFails ==
    /\ InLoop
    /\ ~Reserved(globbed[idx])
    /\ LET f        == globbed[idx]
           original == read_text(Stored(f))
           content  == Rewrite(original)
       IN  /\ content # original
           /\ readLog' = Append(readLog, ReadCall(f, original, TRUE))
           /\ writeLog' = Append(writeLog, WriteCall(f, write_text(content), FALSE, Len(readLog) + 1))
           /\ \E d \in {Stored(f)} \cup Prefixes(write_text(content)) :
                 disk' = [disk EXCEPT ![link[f]] = d]
    /\ pc' = "crashed"
    /\ UNCHANGED <<dir, link, before, globbed, idx, updated, out, run>>

\* the summary counts the files processed, not the files updated
Finish_CountsProcessed ==
    /\ pc = "loop"
    /\ idx > Len(globbed)
    /\ out' = out \o <<BlankLine, SummaryLine(Len(out))>>
    /\ pc' = "done"
    /\ UNCHANGED <<dir, link, disk, before, globbed, idx, updated, readLog, writeLog, run>>

\* main: the loop is over, the summary is printed
Finish ==
    /\ pc = "loop"
    /\ idx > Len(globbed)
    /\ out' = out \o <<BlankLine, SummaryLine(Len(updated))>>
    /\ pc' = "done"
    /\ UNCHANGED <<dir, link, disk, before, globbed, idx, updated, readLog, writeLog, run>>

\* the script is run again on the directory as the last run left it
Rerun ==
    /\ pc = "done"
    /\ run < MaxRuns
    /\ run' = run + 1
    /\ before' = disk
    /\ globbed' = <<>>
    /\ idx' = 1
    /\ updated' = <<>>
    /\ out' = <<>>
    /\ readLog' = <<>>
    /\ writeLog' = <<>>
    /\ pc' = "init"
    /\ UNCHANGED <<dir, link, disk>>

Next ==
    \/ ExistsFails
    \/ Start
    \/ StartUnlistable
    \/ StartMissing
    \/ SkipReserved
    \/ ProcessFile
    \/ ReadFails
    \/ WriteFails
    \/ Finish
    \/ Rerun

\* what the file system answers about test_dir: whether its path can be
\* looked up, whether it exists, whether it can be listed
DirState(s, e, l) == [searchable |-> s, exists |-> e, listable |-> l]

DirStates ==
    {DirState(TRUE, TRUE, TRUE), DirState(TRUE, TRUE, FALSE), DirState(TRUE, FALSE, FALSE),
     DirState(FALSE, TRUE, TRUE), DirState(FALSE, FALSE, FALSE)}

\* texts of the files of the directory model
Unstable == TestDb \o SingleLine \o SubSeq(SingleLine, Len(TestDb) + 1, Len(SingleLine))

CandTexts ==
    {<<"q", "\n">>, <<"q", "\r", "\n">>, SingleLine, <<"q", "\r", "\n">> \o MultiLine,
     Chain(<<"\n", "\t">>, <<"\n", "\t">>, <<"\n", "\t">>, <<"q">>, <<";">>) \o <<"\t", "\n">>,
     <<"q", "\n">> \o Unstable}
OtherTexts == {MultiLine \o SingleLine}

DirNames == {a_rs, my_mod_rs, helpers_rs, mod_rs, a_rs_bak}

\* every name leads to a file of its own; a file is called by that name
NoLinks == [n \in DirNames |-> n]

\* name m is a hard link or a symbolic link to the file of name n
Alias(n, m) == [NoLinks EXCEPT ![m] = n]

Links == {NoLinks, Alias(a_rs, my_mod_rs), Alias(a_rs, helpers_rs), Alias(my_mod_rs, a_rs_bak)}

\* the files the names of l lead to
Files(l) == {l[n] : n \in DOMAIN l}

\* the texts a file starts with: any of CandTexts when a name that the loop
\* processes leads to it
StartTexts(l, i) ==
    IF \E n \in DOMAIN l : l[n] = i /\ GlobRs(n) /\ ~Reserved(n) THEN CandTexts ELSE OtherTexts

\* a directory of several files
Init ==
    /\ dir \in DirStates
    /\ link \in Links
    /\ disk \in {d \in [Files(link) -> CandTexts \cup OtherTexts] :
                    \A i \in Files(link) : d[i] \in StartTexts(link, i)}
    /\ run = 1
    /\ StartRun(disk)

Spec == Init /\ [][Next]_vars

\* a run that meets no input/output failure, and the runs after it
NextRewrite ==
    \/ Start
    \/ StartUnlistable
    \/ ProcessFile
    \/ Finish
    \/ Rerun

\* a directory of one candidate file holding any of the generated texts
InitRewrite ==
    /\ dir \in {DirState(TRUE, TRUE, TRUE), DirState(TRUE, TRUE, FALSE)}
    /\ link = [n \in {a_rs} |-> n]
    /\ disk \in [{a_rs} -> Texts]
    /\ run = 1
    /\ StartRun(disk)

SpecRewrite == InitRewrite /\ [][NextRewrite]_vars

----------------------------------------------------------------------------
(* Properties of a run on a directory (Spec) *)

IsProgress(l) == l.kind \in {"check", "dash"}

Lines(kind, f) == {i \in 1..Len(out) : out[i] = Line(kind, f, 0)}

\* the loop has completed its iteration for f in the current run
Reported(f) == Lines("check", f) # {} \/ Lines("dash", f) # {}

InUpdated(f) == \E i \in 1..Len(updated) : updated[i] = f

\* a candidate file, as the specification defines it
IsCandidate(n) ==
    /\ n[Len(n)] = ".rs"
    /\ n # <<"helpers", ".rs">>
    /\ n # <<"mod", ".rs">>

Candidates == {n \in Names : IsCandidate(n)}

\* the names whose content the run has changed
Changed == {n \in Names : Stored(n) # before[link[n]]}

\* the progress lines printed so far, one per completed iteration
Progress == SelectSeq(out, IsProgress)

IsCheck(l) == l.kind = "check"

\* the k-th call of read_text went on to call write_text
Wrote(k) == \E j \in 1..Len(writeLog) : writeLog[j].at = k

WriteOf(k) == writeLog[CHOOSE j \in 1..Len(writeLog) : writeLog[j].at = k]

\* the writes to the file that name n leads to
WritesTo(n) == {j \in 1..Len(writeLog) : link[writeLog[j].name] = link[n]}

\* C1: for every candidate file the run processes, write_text is called if
\* and only if the text obtained by applying the first and then the second
\* substitution to the text read differs from the text read; the text
\* written is that text, the file holds it until it is written again, and
\* the name is recorded as updated (checkmark); otherwise the call writes
\* nothing and the name is recorded as unchanged (dash).
ThmC1 ==
    /\ Len(Progress) <= Len(readLog)
    /\ updated = [i \in 1..Len(SelectSeq(Progress, IsCheck)) |-> SelectSeq(Progress, IsCheck)[i].name]
    /\ \A k \in 1..Len(readLog) :
          readLog[k].ok =>
              LET f        == readLog[k].name
                  original == readLog[k].text
                  content  == re_sub(2, re_sub(1, original))
              IN  /\ Wrote(k) <=> (content # original)
                  /\ Wrote(k) =>
                        /\ WriteOf(k).name = f
                        /\ WriteOf(k).text = content
                        /\ (WriteOf(k).ok /\ \A j \in WritesTo(f) : writeLog[j].at <= k)
                               => Stored(f) = content
                        /\ k <= Len(Progress) => Progress[k] = CheckLine(f)
                  /\ ~Wrote(k) =>
                        /\ WritesTo(f) = {} => Stored(f) = before[link[f]]
                        /\ k <= Len(Progress) => Progress[k] = DashLine(f)

\* a finished run that rewrote one candidate and left another untouched
WitC1 ==
    /\ pc = "done"
    /\ \E f, g \in Candidates :
          /\ WritesTo(f) # {} /\ Stored(f) # before[link[f]] /\ InUpdated(f)
          /\ WritesTo(g) = {} /\ Lines("dash", g) # {}

\* C6 as stated: only candidate files are ever read or written; helpers.rs,
\* mod.rs and the files whose name does not end in .rs are never read,
\* never written and keep their contents, whatever they contain.
OrigC6 ==
    /\ \A k \in 1..Len(readLog) : readLog[k].name \in Candidates
    /\ \A j \in 1..Len(writeLog) : writeLog[j].name \in Candidates
    /\ \A n \in Names \ Candidates : Stored(n) = before[link[n]] /\ ~Reported(n)

\* C6 (amended): read_text and write_text are only ever called on names
\* that the listing yields, that end in .rs and are not helpers.rs or
\* mod.rs; a file changes only if it is written through such a name.
\* helpers.rs, mod.rs and the names that do not end in .rs are never
\* opened and get no progress line, and they keep their contents unless
\* they lead to the same file as a candidate name (hard link or symbolic
\* link) that the run rewrites.
ThmC6 ==
    /\ \A k \in 1..Len(readLog) :
          readLog[k].name \in Candidates /\ \E i \in 1..Len(globbed) : globbed[i] = readLog[k].name
    /\ \A j \in 1..Len(writeLog) :
          writeLog[j].name \in Candidates /\ \E i \in 1..Len(globbed) : globbed[i] = writeLog[j].name
    /\ \A i \in DOMAIN disk : disk[i] # before[i] => \E j \in 1..Len(writeLog) : link[writeLog[j].name] = i
    /\ \A n \in Names \ Candidates :
          /\ ~Reported(n)
          /\ (\A c \in Candidates : link[c] # link[n]) => Stored(n) = before[link[n]]

\* a finished run that emptied helpers.rs through a.rs, a name of the same
\* file, while mod.rs kept the chains it holds
WitC6 ==
    /\ pc = "done"
    /\ link[helpers_rs] = a_rs
    /\ before[a_rs] = SingleLine
    /\ Stored(helpers_rs) = <<>>
    /\ Lines("check", a_rs) # {}
    /\ Stored(mod_rs) = MultiLine \o SingleLine

\* C7 as stated: when the target directory does not exist the run ends
\* normally, no file is read or modified, and the whole output is the one
\* error line.
OrigC7 ==
    ~dir.exists =>
        /\ pc \in {"init", "done"}
        /\ readLog = <<>>
        /\ writeLog = <<>>
        /\ disk = before
        /\ out = IF pc = "done" THEN <<ErrorLine>> ELSE <<>>

\* C7 (amended): when exists() answers that the target directory does not
\* exist, the run ends normally, no file is read or modified, and the
\* whole output is the one error line.  When the path of the directory
\* cannot be looked up (a directory above it cannot be searched), whether
\* it exists or not, exists() raises PermissionError: the run ends with
\* that failure, prints nothing, and reads and modifies no file.
ThmC7 ==
    /\ (dir.searchable /\ ~dir.exists) =>
          /\ pc \in {"init", "done"}
          /\ readLog = <<>>
          /\ writeLog = <<>>
          /\ disk = before
          /\ out = IF pc = "done" THEN <<ErrorLine>> ELSE <<>>
    /\ ~dir.searchable =>
          /\ pc \in {"init", "crashed"}
          /\ readLog = <<>>
          /\ writeLog = <<>>
          /\ disk = before
          /\ out = <<>>

\* the run on a missing directory has ended, a file with a chain exists
WitC7 ==
    /\ dir.searchable
    /\ ~dir.exists
    /\ pc = "done"
    /\ out = <<ErrorLine>>
    /\ Stored(a_rs) = SingleLine

\* C8 as stated: a run that completes on an existing directory prints one
\* progress line per candidate file, in processing order, with the
\* checkmark exactly for the files whose contents the run changed, and then
\* one summary line whose count is the number of files whose contents
\* changed.
OrigC8 ==
    (pc = "done" /\ dir.exists) =>
        LET processed == SelectSeq(globbed, IsCandidate)
            n         == Len(Progress)
        IN  /\ Len(processed) = n
            /\ Cardinality(Candidates) = n
            /\ \A i \in 1..n :
                  /\ Progress[i].name = processed[i]
                  /\ IsCheck(Progress[i]) <=> (processed[i] \in Changed)
            /\ \A i \in 1..n : out[i] = Progress[i]
            /\ Len(out) = n + 2
            /\ out[n + 1] = BlankLine
            /\ out[n + 2] = SummaryLine(Cardinality(Changed))

\* no candidate name shares its file with another name
NoAlias == \A c \in Candidates, n \in Names : link[c] = link[n] => c = n

\* C8 (amended): a run that completes on an existing directory prints one
\* progress line per name that the listing yields and that is a candidate,
\* in the order of the listing, with the checkmark exactly when the call
\* for that name wrote the file (the text it read differs from the
\* rewritten text), and then an empty line and one summary line whose
\* count is the number of checkmark lines.  A directory that can be listed
\* yields every candidate once; one that cannot yields none, so the output
\* is the summary with count 0.  When the directory can be listed and no
\* candidate shares its file with another name, the checkmark lines are
\* those of the files whose contents changed and the count is their number.
ThmC8 ==
    (pc = "done" /\ dir.exists) =>
        LET processed == SelectSeq(globbed, IsCandidate)
            n         == Len(Progress)
        IN  /\ Len(processed) = n
            /\ Len(readLog) = n
            /\ \A i \in 1..n :
                  /\ Progress[i].name = processed[i]
                  /\ readLog[i].name = processed[i]
                  /\ IsCheck(Progress[i]) <=> Wrote(i)
            /\ \A i \in 1..n : out[i] = Progress[i]
            /\ Len(out) = n + 2
            /\ out[n + 1] = BlankLine
            /\ out[n + 2] = SummaryLine(Len(SelectSeq(Progress, IsCheck)))
            /\ IF dir.listable
               THEN Cardinality(Candidates) = n /\ {processed[i] : i \in 1..n} = Candidates
               ELSE n = 0
            /\ (dir.listable /\ NoAlias) =>
                  /\ \A i \in 1..n : IsCheck(Progress[i]) <=> (processed[i] \in Changed)
                  /\ out[n + 2] = SummaryLine(Cardinality(Changed))

\* a completed run over two names of one file: a checkmark for the first,
\* a dash for the second, a count of 1, and two names whose content changed
WitC8 ==
    /\ pc = "done"
    /\ dir.listable
    /\ link[my_mod_rs] = a_rs
    /\ \E i, j \in 1..Len(out) : out[i].kind = "check" /\ out[j].kind = "dash"
    /\ out[Len(out)] = SummaryLine(1)
    /\ {a_rs, my_mod_rs} \subseteq Changed

\* C9 as stated: a read or write failure is not caught: the run halts at
\* that file, no later file is read or written, no summary is printed, the
\* files rewritten before keep their rewritten contents, the failing file
\* has no progress line, and the output is the progress lines of the files
\* completed before the failure.
OrigC9 ==
    (pc = "crashed" /\ dir.searchable) =>
        LET f         == globbed[idx]
            earlier   == SelectSeq(SubSeq(globbed, 1, idx - 1), IsCandidate)
            later     == {globbed[k] : k \in (idx + 1)..Len(globbed)}
        IN  /\ ~ENABLED Next
            /\ readLog[Len(readLog)].name = f
            /\ \A k \in 1..Len(readLog) : readLog[k].name \notin later
            /\ \A j \in 1..Len(writeLog) : writeLog[j].name \notin later
            /\ \A i \in 1..Len(out) : out[i].kind # "summary"
            /\ Len(out) = Len(earlier)
            /\ \A i \in 1..Len(out) : IsProgress(out[i]) /\ out[i].name = earlier[i]
            /\ \A j \in 1..Len(writeLog) :
                  writeLog[j].ok => Stored(writeLog[j].name) = writeLog[j].text

----------------------------------------------------------------------------
(* Properties of the rewrite of one file (SpecRewrite).  The chain is read *)
(* off the text from left to right, without the patterns.                 *)

Blank(t) == t = " " \/ t = "\n" \/ t = "\r" \/ t = "\t"

At(r, p, lit) == p + Len(lit) - 1 <= Len(r) /\ SubSeq(r, p, p + Len(lit) - 1) = lit

\* the first position from p on that holds no whitespace
WsEnd(r, p) ==
    IF p > Len(r) THEN p
    ELSE CHOOSE q \in p..(Len(r) + 1) :
            /\ \A k \in p..(q - 1) : Blank(r[k])
            /\ q = Len(r) + 1 \/ ~Blank(r[q])

HasNl(w) == \E k \in 1..Len(w) : w[k] = "\n"

Idents(r) == {k \in 1..Len(r) : At(r, k, TestDb)}

\* The chain that starts at position i of r: ok when the four literals
\* follow each other with nothing but whitespace between them; s1, s2, s3
\* the three separators; e the position of the "(" of .expect(; c and
\* last the positions of the first and of the last ")" after it (0 when
\* there is none); nested when there are at least two.
ParseChain(r, i) ==
    LET a1 == i + Len(TestDb)
        b1 == WsEnd(r, a1)
        a2 == b1 + Len(Cleanup)
        b2 == WsEnd(r, a2)
        a3 == b2 + Len(Await)
        b3 == WsEnd(r, a3)
        e  == b3 + Len(Expect) - 1
        ok == /\ At(r, i, TestDb)
              /\ At(r, b1, Cleanup)
              /\ At(r, b2, Await)
              /\ At(r, b3, Expect)
        closes == {k \in (e + 1)..Len(r) : r[k] = ")"}
    IN  IF ~ok THEN [ok |-> FALSE]
        ELSE [ok |-> TRUE,
              s1 |-> SubSeq(r, a1, b1 - 1),
              s2 |-> SubSeq(r, a2, b2 - 1),
              s3 |-> SubSeq(r, a3, b3 - 1),
              e  |-> e,
              c  |-> IF closes = {} THEN 0
                     ELSE CHOOSE k \in closes : \A m \in closes : k <= m,
              last |-> IF closes = {} THEN 0
                        ELSE CHOOSE k \in closes : \A m \in closes : m <= k,
              nested |-> Cardinality(closes) >= 2]

\* what follows the ")" at position c: an optional semicolon, then a run
\* of whitespace; nl is the position of the last newline of that run
\* (0 when the run holds none)
ParseEnd(r, c) ==
    LET semi == c + 1 <= Len(r) /\ r[c + 1] = ";"
        w    == IF semi THEN c + 2 ELSE c + 1
        nls  == {k \in w..(WsEnd(r, w) - 1) : r[k] = "\n"}
    IN  [semi |-> semi,
         first |-> w <= Len(r) /\ r[w] = "\n",
         nl |-> IF nls = {} THEN 0 ELSE CHOOSE k \in nls : \A m \in nls : m <= k]

\* r without the positions i .. j
Cut(r, i, j) == SubSeq(r, 1, i - 1) \o SubSeq(r, j + 1, Len(r))

\* the first position of the line that holds position i
LineStart(r, i) ==
    LET nls == {k \in 1..(i - 1) : r[k] = "\n"}
    IN  IF nls = {} THEN 1 ELSE 1 + (CHOOSE k \in nls : \A m \in nls : m <= k)

\* the loop has completed its iteration for a_rs in the current run
Rewritten == a_rs \in Names /\ Reported(a_rs)

\* a_rs was reported updated and holds the text t
UpdatedTo(t) ==
    /\ Stored(a_rs) = t
    /\ Lines("check", a_rs) # {}
    /\ Len(writeLog) = 1 /\ writeLog[1].name = a_rs

\* a_rs was reported unchanged and was left alone
Untouched == Stored(a_rs) = before[link[a_rs]] /\ Lines("dash", a_rs) # {} /\ writeLog = <<>>

AllNl(P) == HasNl(P.s1) /\ HasNl(P.s2) /\ HasNl(P.s3)

AllEmpty(P) == P.s1 = <<>> /\ P.s2 = <<>> /\ P.s3 = <<>>

\* test_db at position i of r starts a chain that ends as a rule asks: the
\* first ")" after .expect( comes after at least one character and is
\* followed by an optional semicolon, optional whitespace and a newline
Ended(r, i) ==
    LET P == ParseChain(r, i)
    IN  P.ok /\ P.c > P.e + 1 /\ ParseEnd(r, P.c).nl # 0

\* the multi-line chain: every separator is whitespace with a newline
Matches1(r, i) == Ended(r, i) /\ AllNl(ParseChain(r, i))

\* the one-line chain: no separator, and the semicolon
Matches2(r, i) ==
    Ended(r, i) /\ AllEmpty(ParseChain(r, i)) /\ ParseEnd(r, ParseChain(r, i).c).semi

\* Rule 1 as the specification words it: every separator is optional
\* whitespace
MatchesSpec(r, i) == Ended(r, i)

Matches(form, r, i) ==
    CASE form = "multi"  -> Matches1(r, i)
      [] form = "single" -> Matches2(r, i)
      [] form = "spec"   -> MatchesSpec(r, i)

\* the last position of the chain at i: the last newline of the whitespace
\* that follows it
SpanEnd(r, i) == ParseEnd(r, ParseChain(r, i).c).nl

\* r from position p on, without the chains of the given form, taken from
\* left to right, each from its test_db to its SpanEnd
RECURSIVE CutAll(_, _, _)
CutAll(form, r, p) ==
    LET K == {k \in Idents(r) : k >= p /\ Matches(form, r, k)}
    IN  IF K = {} THEN SubSeq(r, p, Len(r))
        ELSE LET k == CHOOSE k \in K : \A m \in K : k <= m
             IN  SubSeq(r, p, k - 1) \o CutAll(form, r, SpanEnd(r, k) + 1)

NoMatch(r) == \A i \in Idents(r) : ~Matches1(r, i) /\ ~Matches2(r, i)

\* C5 as stated: a candidate file whose text holds no match of Rule 1 and
\* no match of Rule 2 keeps its contents, is not written, and is reported
\* unchanged (dash line) and not counted in the summary.
OrigC5 ==
    (pc = "done" /\ a_rs \in Candidates) =>
        (NoMatch(read_text(before[link[a_rs]])) =>
            /\ Stored(a_rs) = before[link[a_rs]]
            /\ writeLog = <<>>
            /\ Lines("dash", a_rs) # {}
            /\ out[Len(out)] = SummaryLine(0))

\* C5 (amended): a candidate file that the run processes (the listing
\* yields its name and the run reaches it) and whose text holds no match
\* of Rule 1 and no match of Rule 2 keeps its contents, is not written,
\* and is reported unchanged (dash line) and not counted in the summary.
\* A candidate in a directory that cannot be listed is not processed: it
\* keeps its contents and gets no line.
ThmC5 ==
    /\ Rewritten =>
          (NoMatch(read_text(before[link[a_rs]])) =>
              /\ Untouched
              /\ ~InUpdated(a_rs)
              /\ Lines("check", a_rs) = {}
              /\ pc = "done" => out[Len(out)] = SummaryLine(0))
    /\ ~dir.listable =>
          /\ ~Rewritten
          /\ disk = before
          /\ readLog = <<>>
          /\ pc = "done" => out = <<BlankLine, SummaryLine(0)>>

\* a complete run over a file that holds a one-line chain without its
\* semicolon, which neither rule matches
WitC5 ==
    /\ pc = "done"
    /\ run = 1
    /\ before[a_rs] = Chain(<<>>, <<>>, <<>>, <<"q">>, <<>>) \o <<"\n">>
    /\ disk[a_rs] = before[a_rs]
    /\ out = <<DashLine(a_rs), BlankLine, SummaryLine(0)>>

\* the only test_db of r is at i and starts the one-line chain
\* test_db.cleanup().await.expect(<args>); followed by a newline, <args>
\* not empty and without ")"
PreC2(r, i) ==
    /\ Idents(r) = {i}
    /\ Matches2(r, i)
    /\ ParseEnd(r, ParseChain(r, i).c).first

\* C2 as stated, for a file that holds the one-line chain once and no other
\* test_db: the whole line that holds the chain is deleted and every other
\* line of the file is kept as it was stored.
OrigC2 ==
    Rewritten =>
        LET t == before[link[a_rs]]
        IN  \A i \in Idents(t) :
                PreC2(t, i) =>
                    UpdatedTo(Cut(t, LineStart(t, i), ParseChain(t, i).c + 2))

\* C2 (amended): Rule 2 works on the text as read (line endings read as
\* "\n") less what Rule 1 deleted.  Every one-line chain
\* test_db.cleanup().await.expect(<args>); of that text, <args> not empty
\* and without ")", that is followed by optional whitespace and a newline
\* is deleted from its test_db to the last newline of that whitespace, and
\* Rule 2 deletes nothing else: the text before the chain on its line
\* stays and is joined to what follows, the blank lines that directly
\* follow the chain go with it.  The file then holds that text and is
\* reported as updated.
ThmC2 ==
    Rewritten =>
        LET r  == read_text(before[link[a_rs]])
            r1 == CutAll("multi", r, 1)
            r2 == CutAll("single", r1, 1)
        IN  /\ (\E i \in Idents(r1) : Matches2(r1, i)) => UpdatedTo(r2)
            /\ IF r2 # r THEN UpdatedTo(r2) ELSE Untouched

\* an indented one-line chain followed by a blank line, in a file that
\* also uses test_db on the line before: that line and the indentation
\* are all that is left
WitC2 ==
    /\ pc = "done"
    /\ run = 1
    /\ before[a_rs] = TestDb \o <<"\n", " ">> \o SingleLine \o <<"\n">>
    /\ disk[a_rs] = TestDb \o <<"\n", " ">>
    /\ Lines("check", a_rs) # {}

\* C3 as stated: Rule 1 deletes every chain whose separators are optional
\* whitespace, the trailing newline included, and the file is reported as
\* updated; the file then holds the text as read less those chains (and
\* less what Rule 2 deletes after that).
OrigC3 ==
    Rewritten =>
        LET r  == read_text(before[link[a_rs]])
            s1 == CutAll("spec", r, 1)
            s2 == CutAll("single", s1, 1)
        IN  (\E i \in Idents(r) : MatchesSpec(r, i)) => UpdatedTo(s2)

\* C4 as stated: a second complete run changes no file, reports every
\* file unchanged and counts 0.
OrigC4 ==
    (run = 2 /\ pc = "done") =>
        /\ disk = before
        /\ writeLog = <<>>
        /\ updated = <<>>
        /\ \A i \in 1..Len(out) : out[i].kind # "check"
        /\ out[Len(out)] = SummaryLine(0)

\* test_db at position i of r starts a one-line or a multi-line chain
\* whose argument ends in a ")": the first ")" after .expect( comes after
\* at least one character and is directly followed by the ")" that closes
\* the call, and that one by what the chain's rule asks for (a semicolon,
\* optional for the multi-line chain, optional whitespace and a newline)
NestedChain(r, i) ==
    LET P == ParseChain(r, i)
    IN  /\ P.ok /\ P.c > P.e + 1
        /\ P.c + 1 <= Len(r) /\ r[P.c + 1] = ")"
        /\ ParseEnd(r, P.c + 1).nl # 0
        /\ AllNl(P) \/ (AllEmpty(P) /\ ParseEnd(r, P.c + 1).semi)

RefEnd(form, r, i) == IF Matches(form, r, i) THEN SpanEnd(r, i) + 1 ELSE 0

====
